---- MODULE Spec2Model ----
(***************************************************************************)
(* gitwatch: clone a repository once, run a command, then poll it with     *)
(* pull / run-on-update / sleep.  Three goroutines share the unbuffered    *)
(* channel endOfTimes: the interrupt listener, the watcher (watchRepo) and *)
(* the controller (app.Action), which receives one value and exits.        *)
(*                                                                         *)
(* A step of the model is one blocking call of the program returning       *)
(* (TempDir, Stat/MkdirAll, key load, clone, command, POST, pull, sleep,   *)
(* channel rendezvous, process exit) together with the straight-line code  *)
(* that follows it up to the next blocking call.                           *)
(***************************************************************************)
EXTENDS Integers, Sequences, FiniteSets, TLC

VARIABLES
    destDir,        \* ctx.destDir: "" or a configured path
    key,            \* ctx.key: "" or a key file path
    slackWebhook,   \* ctx.slackWebhook: "", a well-formed URL, a malformed URL
    intervalSeconds,\* ctx.intervalSeconds, a 64-bit int held as four 16-bit limbs
    mpc,            \* controller (app.Action): "start", "recv", "got", "exited"
    spc,            \* interrupt listener: "wait", "send", "done"
    wpc,            \* watcher position
    caller,         \* call site of the runCommand in progress: "clone" or "pull"
    werr,           \* the error the watcher sends / has sent on endOfTimes
    recvErr,        \* err := <-endOfTimes in the controller
    exited,         \* the process has ended
    exitCode,       \* its exit status once exited
    dirState,       \* the resolved directory on disk: "absent", "present", "unreadable"
    tmpMade,        \* ioutil.TempDir succeeded (defer os.RemoveAll registered)
    cmdErr,         \* err of the last c.CombinedOutput()
    payloadColor,   \* Color of the last slackMessage marshalled
    delivery,       \* outcome of the last client.Do
    sleepLeft,      \* whole seconds the current time.Sleep still has to run
    elapsed,        \* whole seconds slept since the last pull attempt
    \* history of the run (read by the properties only)
    dirAtStat,      \* dirState when os.Stat ran
    mkdirCalls,     \* calls of os.MkdirAll
    dirAtClone,     \* dirState when git.PlainClone was called
    nClone,         \* calls of git.PlainClone
    cloneOk,        \* the clone succeeded
    nPull,          \* calls of worktree.Pull
    nUpdated,       \* pulls that returned nil (new commits fetched)
    nCmdStarted,    \* runCommand calls started
    nCmdDone,       \* commands that returned
    nPost,          \* client.Do calls
    sigInSleep,     \* the interrupt arrived while the watcher was in time.Sleep
    cmdAtSig        \* nCmdStarted when that interrupt arrived

vars == <<destDir, key, slackWebhook, intervalSeconds, mpc, spc, wpc, caller,
          werr, recvErr, exited, exitCode, dirState, tmpMade, cmdErr,
          payloadColor, delivery, sleepLeft, elapsed, dirAtStat, mkdirCalls,
          dirAtClone, nClone, cloneOk, nPull, nUpdated, nCmdStarted, nCmdDone,
          nPost, sigInSleep, cmdAtSig>>

config == <<destDir, key, slackWebhook, intervalSeconds>>
history == <<dirAtStat, mkdirCalls, dirAtClone, nClone, cloneOk, nPull,
             nUpdated, nCmdStarted, nCmdDone, nPost>>

(***************************************************************************)
(* Bounds of the model.                                                    *)
(***************************************************************************)
MaxPulls == 2       \* pull attempts explored
MaxElapsed == 2     \* seconds of sleep explored

(***************************************************************************)
(* 64-bit integers as four 16-bit limbs, least significant first.          *)
(***************************************************************************)
LimbBase == 2 ^ 16

FromNat(n) == <<n % LimbBase, (n \div LimbBase) % LimbBase, 0, 0>>

RECURSIVE CarryInto(_, _, _)
\* carry out of limbs 1..i of x * k
CarryInto(x, k, i) ==
    IF i = 0 THEN 0 ELSE (x[i] * k + CarryInto(x, k, i - 1)) \div LimbBase

\* x * k mod 2^64: the carry out of the fourth limb is dropped
MulWrap(x, k) == [i \in 1..4 |-> (x[i] * k + CarryInto(x, k, i - 1)) % LimbBase]

RECURSIVE RemAbove(_, _, _)
\* remainder of limbs i+1..4 of x divided by k
RemAbove(x, k, i) ==
    IF i = 4 THEN 0 ELSE (RemAbove(x, k, i + 1) * LimbBase + x[i + 1]) % k

DivSmall(x, k) == [i \in 1..4 |-> (RemAbove(x, k, i) * LimbBase + x[i]) \div k]

\* the sign bit of a two's complement int64
IsNegative(x) == x[4] >= 2 ^ 15

\* x as a natural number, cut off at cap
Clamp(x, cap) ==
    IF x[2] = 0 /\ x[3] = 0 /\ x[4] = 0 /\ x[1] <= cap THEN x[1] ELSE cap

MillisPerSecond == 1000

\* time.Duration(ctx.intervalSeconds*1000) * time.Millisecond, in nanoseconds:
\* time.Millisecond is 1000 * 1000 ns, multiplied in two wrapping steps
SleepDuration(i) ==
    MulWrap(MulWrap(MulWrap(i, MillisPerSecond), 1000), 1000)

\* time.Sleep(d) returns at once when d <= 0, else after at least d
SleepSeconds(i) ==
    LET d == SleepDuration(i)
    IN  IF IsNegative(d) THEN 0
        ELSE Clamp(DivSmall(DivSmall(DivSmall(d, 1000), 1000), 1000),
                   MaxElapsed + 1)

\* --interval-seconds 9223372037: the first value whose nanoseconds pass 2^63
OverflowInterval == <<32005, 9665, 2, 0>>

Intervals == {FromNat(1), FromNat(2), OverflowInterval}

\* the configured interval in seconds, cut off above the seconds explored
IntervalNat == Clamp(intervalSeconds, MaxElapsed + 1)

(***************************************************************************)
(* Values.                                                                 *)
(***************************************************************************)
Nil == "nil"
WebhookURL == "https://hooks.example/T0"
MalformedURL == "%zz"

\* errors.New("stopping due to an interrupt signal")
SignalValue == "stopping due to an interrupt signal"

\* if err != nil { cli.Exit(1) }; cli.Exit(0)
ExitCodeFor_zero(err) == 0
ExitCodeFor(err) == IF err # Nil THEN 1 ELSE 0

\* os.Stat on the resolved directory
Stat(d) ==
    CASE d = "present" -> Nil
      [] d = "absent" -> "ENOENT"
      [] OTHER -> "EACCES"

\* os.IsNotExist(err)
IsNotExist_never(err) == FALSE
IsNotExist(err) == err = "ENOENT"

\* slackColor := "good"; if err != nil { slackColor = "bad" }
SlackColor_good(err) == "good"
SlackColor(err) == IF err # Nil THEN "bad" ELSE "good"

\* http.NewRequest fails on a URL it cannot parse and returns a nil request
NewRequestOK(url) == url # MalformedURL

\* switch err { case git.NoErrAlreadyUpToDate: ... case nil: ... default: ... }
PullBranch_eager(outcome) ==
    CASE outcome = "uptodate" -> "run"
      [] outcome = "updated" -> "run"
      [] OTHER -> "fatal"
PullBranch(outcome) ==
    CASE outcome = "uptodate" -> "sleep"
      [] outcome = "updated" -> "run"
      [] OTHER -> "fatal"

\* where watchRepo goes on when runCommand returns; its result is discarded
AfterRunCommand_strict(site, err) ==
    IF err # Nil THEN "send" ELSE IF site = "clone" THEN "pull" ELSE "sleep"
AfterRunCommand(site, err) == IF site = "clone" THEN "pull" ELSE "sleep"

(***************************************************************************)
(* Initial state: the flags are parsed, the listener goroutine is started, *)
(* app.Action has not run yet.                                             *)
(***************************************************************************)
Init ==
    /\ destDir \in {"", "/srv/repo"}
    /\ key \in {"", "id_rsa"}
    /\ slackWebhook \in {"", WebhookURL, MalformedURL}
    /\ intervalSeconds \in Intervals
    /\ mpc = "start" /\ spc = "wait" /\ wpc = "idle"
    /\ caller = "clone" /\ werr = Nil /\ recvErr = Nil
    /\ exited = FALSE /\ exitCode = 0
    /\ dirState \in (IF destDir = "" THEN {"absent"}
                     ELSE {"absent", "present", "unreadable"})
    /\ tmpMade = FALSE
    /\ cmdErr = Nil /\ payloadColor = "none" /\ delivery = "none"
    /\ sleepLeft = 0 /\ elapsed = 0
    /\ dirAtStat = "none" /\ mkdirCalls = 0 /\ dirAtClone = "none"
    /\ nClone = 0 /\ cloneOk = FALSE /\ nPull = 0 /\ nUpdated = 0
    /\ nCmdStarted = 0 /\ nCmdDone = 0 /\ nPost = 0
    /\ sigInSleep = FALSE /\ cmdAtSig = 0

(***************************************************************************)
(* Watcher helpers.                                                        *)
(***************************************************************************)
\* variant: the error is recorded and the failed stage is tried again
Fail_retry(err) ==
    /\ wpc' = (IF err \in {"pull", "worktree"} THEN "pull"
               ELSE IF err = "clone" THEN "clone" ELSE "send")
    /\ werr' = err

\* ctx.endOfTimes <- err; return   (blocks until the controller receives)
Fail(err) ==
    /\ wpc' = "send"
    /\ werr' = err

\* continue at position p; entering the sleep fixes its length
GoTo(p) ==
    /\ wpc' = p
    /\ sleepLeft' = IF p = "sleep" THEN SleepSeconds(intervalSeconds) ELSE sleepLeft

(***************************************************************************)
(* Controller: app.Action.                                                 *)
(***************************************************************************)
\* go watchRepo(ctx)
Spawn ==
    /\ ~exited /\ mpc = "start"
    /\ mpc' = "recv" /\ wpc' = "tmpdir"
    /\ UNCHANGED <<config, spc, caller, werr, recvErr, exited, exitCode,
                   dirState, tmpMade, cmdErr, payloadColor, delivery,
                   sleepLeft, elapsed, history, sigInSleep, cmdAtSig>>

\* variant: the controller receives in a loop, taking a second value
ReceiveSignal_again ==
    /\ ~exited /\ mpc \in {"recv", "got"} /\ spc = "send"
    /\ recvErr' = SignalValue
    /\ spc' = "done" /\ mpc' = "got"
    /\ UNCHANGED <<config, wpc, caller, werr, exited, exitCode, dirState,
                   tmpMade, cmdErr, payloadColor, delivery, sleepLeft,
                   elapsed, history, sigInSleep, cmdAtSig>>

\* variant: the controller takes the signal only between the watcher's
\* blocking calls
ReceiveSignal_idleOnly ==
    /\ ~exited /\ mpc = "recv" /\ spc = "send"
    /\ wpc \notin {"cmd", "sleep"}
    /\ recvErr' = SignalValue
    /\ spc' = "done" /\ mpc' = "got"
    /\ UNCHANGED <<config, wpc, caller, werr, exited, exitCode, dirState,
                   tmpMade, cmdErr, payloadColor, delivery, sleepLeft,
                   elapsed, history, sigInSleep, cmdAtSig>>

\* err := <-endOfTimes, a rendezvous with the listener blocked on its send
ReceiveSignal ==
    /\ ~exited /\ mpc = "recv" /\ spc = "send"
    /\ recvErr' = SignalValue
    /\ spc' = "done" /\ mpc' = "got"
    /\ UNCHANGED <<config, wpc, caller, werr, exited, exitCode, dirState,
                   tmpMade, cmdErr, payloadColor, delivery, sleepLeft,
                   elapsed, history, sigInSleep, cmdAtSig>>

\* err := <-endOfTimes, a rendezvous with the watcher blocked on its send;
\* the watcher goes on to its return
ReceiveWatcher ==
    /\ ~exited /\ mpc = "recv" /\ wpc = "send"
    /\ recvErr' = werr
    /\ wpc' = "defer" /\ mpc' = "got"
    /\ UNCHANGED <<config, spc, caller, werr, exited, exitCode, dirState,
                   tmpMade, cmdErr, payloadColor, delivery, sleepLeft,
                   elapsed, history, sigInSleep, cmdAtSig>>

\* log.Error(err); cli.Exit(1)  /  cli.Exit(0)
Exit ==
    /\ ~exited /\ mpc = "got"
    /\ mpc' = "exited" /\ exited' = TRUE
    /\ exitCode' = ExitCodeFor(recvErr)
    /\ UNCHANGED <<config, spc, wpc, caller, werr, recvErr, dirState, tmpMade,
                   cmdErr, payloadColor, delivery, sleepLeft, elapsed,
                   history, sigInSleep, cmdAtSig>>

(***************************************************************************)
(* Interrupt listener.                                                     *)
(***************************************************************************)
\* <-gracefulStop returns: SIGINT arrived; the listener now blocks on its send
Interrupt ==
    /\ ~exited /\ spc = "wait"
    /\ spc' = "send"
    /\ sigInSleep' = (wpc = "sleep")
    /\ cmdAtSig' = IF wpc = "sleep" THEN nCmdStarted ELSE cmdAtSig
    /\ UNCHANGED <<config, mpc, wpc, caller, werr, recvErr, exited, exitCode,
                   dirState, tmpMade, cmdErr, payloadColor, delivery,
                   sleepLeft, elapsed, history>>

(***************************************************************************)
(* Watcher: watchRepo.                                                     *)
(***************************************************************************)
\* dir := ctx.destDir; if dir == "" { ioutil.TempDir; defer os.RemoveAll }
ResolveDir(ok) ==
    /\ ~exited /\ wpc = "tmpdir"
    /\ IF destDir # ""
       THEN /\ wpc' = "stat"
            /\ UNCHANGED <<werr, dirState, tmpMade>>
       ELSE IF ok
            THEN /\ wpc' = "stat" /\ dirState' = "present" /\ tmpMade' = TRUE
                 /\ UNCHANGED werr
            ELSE /\ Fail("tmpdir") /\ UNCHANGED <<dirState, tmpMade>>
    /\ UNCHANGED <<config, mpc, spc, caller, recvErr, exited, exitCode, cmdErr,
                   payloadColor, delivery, sleepLeft, elapsed, history, sigInSleep,
                   cmdAtSig>>

\* if _, err := os.Stat(dir); os.IsNotExist(err) { err = os.MkdirAll(dir, 0644) }
EnsureDir(ok) ==
    /\ ~exited /\ wpc = "stat"
    /\ dirAtStat' = dirState
    /\ IF IsNotExist(Stat(dirState))
       THEN /\ mkdirCalls' = mkdirCalls + 1
            /\ IF ok
               THEN /\ dirState' = "present" /\ wpc' = "key"
                    /\ UNCHANGED werr
               ELSE /\ Fail("mkdir") /\ UNCHANGED dirState
       ELSE /\ wpc' = "key"
            /\ UNCHANGED <<mkdirCalls, dirState, werr>>
    /\ UNCHANGED <<config, mpc, spc, caller, recvErr, exited, exitCode, tmpMade,
                   cmdErr, payloadColor, delivery, sleepLeft, elapsed,
                   dirAtClone, nClone, cloneOk, nPull, nUpdated, nCmdStarted,
                   nCmdDone, nPost, sigInSleep, cmdAtSig>>

\* if ctx.key != "" { auth, err = gitSSH.NewPublicKeysFromFile("", ctx.key, "") }
LoadKey(ok) ==
    /\ ~exited /\ wpc = "key"
    /\ IF key = "" \/ ok
       THEN wpc' = "clone" /\ UNCHANGED werr
       ELSE Fail("key")
    /\ UNCHANGED <<config, mpc, spc, caller, recvErr, exited, exitCode,
                   dirState, tmpMade, cmdErr, payloadColor, delivery,
                   sleepLeft, elapsed, history, sigInSleep, cmdAtSig>>

\* variant: the post-clone command is started without being waited for
Clone_async(ok) ==
    /\ ~exited /\ wpc = "clone"
    /\ nClone' = nClone + 1
    /\ dirAtClone' = dirState
    /\ IF ok
       THEN /\ cloneOk' = TRUE
            /\ nCmdStarted' = nCmdStarted + 1
            /\ wpc' = "pull" /\ caller' = "clone"
            /\ UNCHANGED werr
       ELSE /\ Fail("clone")
            /\ UNCHANGED <<cloneOk, nCmdStarted, caller>>
    /\ UNCHANGED <<config, mpc, spc, recvErr, exited, exitCode, dirState,
                   tmpMade, cmdErr, payloadColor, delivery, sleepLeft, elapsed,
                   dirAtStat, mkdirCalls, nPull, nUpdated, nCmdDone, nPost,
                   sigInSleep, cmdAtSig>>

\* repo, err := git.PlainClone(...); on success runCommand(ctx) starts
Clone(ok) ==
    /\ ~exited /\ wpc = "clone"
    /\ nClone' = nClone + 1
    /\ dirAtClone' = dirState
    /\ IF ok
       THEN /\ cloneOk' = TRUE
            /\ nCmdStarted' = nCmdStarted + 1
            /\ wpc' = "cmd" /\ caller' = "clone"
            /\ UNCHANGED werr
       ELSE /\ Fail("clone")
            /\ UNCHANGED <<cloneOk, nCmdStarted, caller>>
    /\ UNCHANGED <<config, mpc, spc, recvErr, exited, exitCode, dirState,
                   tmpMade, cmdErr, payloadColor, delivery, sleepLeft, elapsed,
                   dirAtStat, mkdirCalls, nPull, nUpdated, nCmdDone, nPost,
                   sigInSleep, cmdAtSig>>

\* runCommand: c.CombinedOutput() returns; with a webhook the message is
\* marshalled, the request built and client.Do called
CommandReturns(err) ==
    /\ ~exited /\ wpc = "cmd"
    /\ cmdErr' = err
    /\ nCmdDone' = nCmdDone + 1
    /\ IF slackWebhook = ""
       THEN /\ LET next == AfterRunCommand(caller, err)
               IN  IF next = "send"
                   THEN Fail(err) /\ UNCHANGED sleepLeft
                   ELSE GoTo(next) /\ UNCHANGED werr
            /\ UNCHANGED <<payloadColor, nPost>>
       ELSE /\ payloadColor' = SlackColor(err)
            /\ IF NewRequestOK(slackWebhook)
               THEN wpc' = "post" /\ nPost' = nPost + 1
               ELSE wpc' = "panic" /\ UNCHANGED nPost  \* req.Header on a nil req
            /\ UNCHANGED <<werr, sleepLeft>>
    /\ UNCHANGED <<config, mpc, spc, caller, recvErr, exited, exitCode,
                   dirState, tmpMade, delivery, elapsed, dirAtStat, mkdirCalls,
                   dirAtClone, nClone, cloneOk, nPull, nUpdated, nCmdStarted,
                   sigInSleep, cmdAtSig>>

\* resp, err := client.Do(req) returns; err is only logged, then
\* resp.StatusCode is read: resp is nil after a transport error
PostReturns(outcome) ==
    /\ ~exited /\ wpc = "post"
    /\ delivery' = outcome
    /\ IF outcome = "transport_error"
       THEN wpc' = "panic" /\ UNCHANGED <<werr, sleepLeft>>
       ELSE LET next == AfterRunCommand(caller, cmdErr)
            IN  IF next = "send"
                THEN Fail(cmdErr) /\ UNCHANGED sleepLeft
                ELSE GoTo(next) /\ UNCHANGED werr
    /\ UNCHANGED <<config, mpc, spc, caller, recvErr, exited, exitCode,
                   dirState, tmpMade, cmdErr, payloadColor, elapsed, history,
                   sigInSleep, cmdAtSig>>

\* worktree, err := repo.Worktree(); err = worktree.Pull(...); switch err
Pull(outcome) ==
    /\ ~exited /\ wpc = "pull" /\ nPull < MaxPulls
    /\ IF outcome = "worktree_error"
       THEN /\ Fail("worktree")
            /\ UNCHANGED <<nPull, nUpdated, nCmdStarted, caller, sleepLeft,
                           elapsed>>
       ELSE /\ nPull' = nPull + 1
            /\ elapsed' = 0
            /\ CASE PullBranch(outcome) = "sleep" ->
                      /\ GoTo("sleep")
                      /\ UNCHANGED <<nUpdated, nCmdStarted, caller, werr>>
                 [] PullBranch(outcome) = "run" ->
                      /\ nUpdated' = nUpdated + (IF outcome = "updated" THEN 1 ELSE 0)
                      /\ nCmdStarted' = nCmdStarted + 1
                      /\ wpc' = "cmd" /\ caller' = "pull"
                      /\ UNCHANGED <<werr, sleepLeft>>
                 [] OTHER ->
                      /\ Fail("pull")
                      /\ UNCHANGED <<nUpdated, nCmdStarted, caller, sleepLeft>>
    /\ UNCHANGED <<config, mpc, spc, recvErr, exited, exitCode, dirState,
                   tmpMade, cmdErr, payloadColor, delivery, dirAtStat,
                   mkdirCalls, dirAtClone, nClone, cloneOk, nCmdDone, nPost,
                   sigInSleep, cmdAtSig>>

\* one second of time.Sleep passes
Tick ==
    /\ ~exited /\ wpc = "sleep"
    /\ sleepLeft > 0 /\ elapsed < MaxElapsed
    /\ sleepLeft' = sleepLeft - 1
    /\ elapsed' = elapsed + 1
    /\ UNCHANGED <<config, mpc, spc, wpc, caller, werr, recvErr, exited,
                   exitCode, dirState, tmpMade, cmdErr, payloadColor, delivery,
                   history, sigInSleep, cmdAtSig>>

\* time.Sleep returns; the for loop starts its next iteration
Wake ==
    /\ ~exited /\ wpc = "sleep" /\ sleepLeft = 0
    /\ wpc' = "pull"
    /\ UNCHANGED <<config, mpc, spc, caller, werr, recvErr, exited, exitCode,
                   dirState, tmpMade, cmdErr, payloadColor, delivery,
                   sleepLeft, elapsed, history, sigInSleep, cmdAtSig>>

\* the deferred os.RemoveAll(tmpDir) runs: on return after a completed send,
\* and while a panic unwinds the goroutine
RunDefers ==
    /\ ~exited /\ wpc \in {"defer", "panic"}
    /\ dirState' = IF tmpMade THEN "absent" ELSE dirState
    /\ wpc' = IF wpc = "defer" THEN "returned" ELSE "crash"
    /\ UNCHANGED <<config, mpc, spc, caller, werr, recvErr, exited, exitCode,
                   tmpMade, cmdErr, payloadColor, delivery, sleepLeft, elapsed,
                   history, sigInSleep, cmdAtSig>>

\* an unrecovered panic ends the process with status 2
Crash ==
    /\ ~exited /\ wpc = "crash"
    /\ exited' = TRUE /\ exitCode' = 2
    /\ UNCHANGED <<config, mpc, spc, wpc, caller, werr, recvErr, dirState,
                   tmpMade, cmdErr, payloadColor, delivery, sleepLeft, elapsed,
                   history, sigInSleep, cmdAtSig>>

Next ==
    \/ Spawn
    \/ ReceiveSignal
    \/ ReceiveWatcher
    \/ Exit
    \/ Interrupt
    \/ \E ok \in BOOLEAN : ResolveDir(ok)
    \/ \E ok \in BOOLEAN : EnsureDir(ok)
    \/ \E ok \in BOOLEAN : LoadKey(ok)
    \/ \E ok \in BOOLEAN : Clone(ok)
    \/ \E err \in {Nil, "exit status 1", "executable file not found"} :
           CommandReturns(err)
    \/ \E outcome \in {"transport_error", "non200", "ok200"} :
           PostReturns(outcome)
    \/ \E outcome \in {"worktree_error", "uptodate", "updated", "pull_error"} :
           Pull(outcome)
    \/ Tick
    \/ Wake
    \/ RunDefers
    \/ Crash

Spec == Init /\ [][Next]_vars

(***************************************************************************)
(* Scheduling: a goroutine that can run does run (the controller, and the  *)
(* watcher's return and panic paths).  Nothing is assumed of the outside   *)
(* world: signals, the remote, the command and the webhook may never       *)
(* answer.                                                                 *)
(***************************************************************************)
FairSpec ==
    /\ Spec
    /\ WF_vars(Spawn)
    /\ WF_vars(ReceiveSignal \/ ReceiveWatcher)
    /\ WF_vars(Exit)
    /\ WF_vars(RunDefers)
    /\ WF_vars(Crash)

(***************************************************************************)
(* Properties.                                                             *)
(***************************************************************************)
FatalErrors == {"tmpdir", "mkdir", "key", "clone", "worktree", "pull"}

\* C1: at every point the number of command invocations started equals
\* (1 if the clone has succeeded, else 0) plus the number of pulls so far
\* that returned Updated; a failed clone and an AlreadyUpToDate pull start none.
C1_CommandCount ==
    /\ nCmdStarted = (IF cloneOk THEN 1 ELSE 0) + nUpdated
    /\ (nClone > 0 /\ ~cloneOk => nCmdStarted = 0)

\* one Updated and one AlreadyUpToDate pull after a successful clone
C1_Witness ==
    cloneOk /\ nPull = 2 /\ nUpdated = 1 /\ nCmdStarted = 2 /\ wpc = "sleep"

\* a watcher that has hit a fatal error pulls and runs nothing more
StoppedAfterFailure ==
    werr \in FatalErrors
        => (nPull' = nPull /\ nCmdStarted' = nCmdStarted /\ werr' = werr)

\* C2: once a fatal stage has failed the watcher attempts no further pull and
\* starts no further command, the process eventually exits, and if no
\* interrupt has been received it exits with code 1 on the watcher's error.
C2_FatalExits ==
    /\ []((werr \in FatalErrors /\ exited /\ spc = "wait")
            => (exitCode = 1 /\ recvErr = werr))
    /\ [][StoppedAfterFailure]_vars
    /\ ((werr \in FatalErrors) ~> exited)

\* a pull failed after an update had been handled, and the process has exited
C2_Witness ==
    exited /\ werr = "pull" /\ nUpdated = 1 /\ spc = "wait" /\ exitCode = 1

\* C3: an interrupt received while the watcher is in its inter-poll sleep,
\* with no fatal watcher error, makes the process exit with code 0.
C3_InterruptExitsZero ==
    (exited /\ sigInSleep /\ werr = Nil /\ recvErr = SignalValue)
        => exitCode = 0

\* runCommand returning after a failed command leaves the watcher at its
\* next pull or sleep with nothing to send
ContinuesAfterFailedCommand ==
    (wpc \in {"cmd", "post"} /\ wpc' \notin {"cmd", "post", "panic"}
       /\ cmdErr' # Nil)
        => (wpc' = (IF caller = "clone" THEN "pull" ELSE "sleep") /\ werr' = Nil)

\* C4: a command that fails (non-zero exit or spawn failure) never ends the
\* watch: when runCommand returns after it the watcher is at its next pull or
\* sleep step with no error to send, and no command error is ever sent.
C4_CommandFailureNotFatal ==
    /\ [][ContinuesAfterFailedCommand]_vars
    /\ [](werr \in FatalErrors \cup {Nil})
    /\ [](recvErr \in FatalErrors \cup {Nil, SignalValue})

\* the post-clone command failed and the watcher went on to pull and sleep
C4_Witness ==
    cmdErr # Nil /\ nCmdDone = 1 /\ nPull = 1 /\ wpc = "sleep" /\ werr = Nil

\* C5: with a webhook configured, a failed delivery (transport error, or a
\* response that is not 200) leaves the watcher running: it never brings the
\* watcher down.
C5_DeliveryFailureHarmless ==
    delivery \in {"transport_error", "non200"} => wpc \notin {"panic", "crash"}

\* C6 (as stated): the payload's color is "ok" when the command exited with
\* status zero and "failure" otherwise.
C6_ColorOkFailure ==
    (slackWebhook # "" /\ nCmdDone > 0)
        => payloadColor = (IF cmdErr = Nil THEN "ok" ELSE "failure")

\* C6 (amended): for every command invocation made with a webhook configured
\* the payload's color is "good" when the command exited with status zero
\* and "bad" otherwise, whatever becomes of the delivery.
C6_ColorGoodBad ==
    /\ (slackWebhook # "" /\ nCmdDone > 0)
          => payloadColor = (IF cmdErr = Nil THEN "good" ELSE "bad")
    /\ (slackWebhook = "" => payloadColor = "none")

\* a failed command was reported with "bad" and the delivery got a non-200
C6_Witness ==
    /\ cmdErr = "executable file not found" /\ payloadColor = "bad"
    /\ delivery = "non200" /\ wpc \in {"pull", "sleep"}

\* C7: when no directory is configured the temporary directory is gone once
\* the process has exited, on every exit path; a configured directory is
\* never removed.
C7_TempDirRemoved ==
    /\ (exited /\ tmpMade => dirState = "absent")
    /\ (destDir # "" /\ dirAtClone = "present" => dirState = "present")

\* a pull attempt after the first comes a full interval after the one before
PullsFullIntervalApart ==
    (nPull' = nPull + 1 /\ nPull > 0) => elapsed >= IntervalNat

\* C8: for every interval I > 0 two consecutive pull attempts are at least I
\* seconds apart.
C8_FullInterval == [][PullsFullIntervalApart]_vars

\* C9: a missing directory is created before the clone is attempted (no
\* clone while it is missing, none after a failed creation); an existing one
\* sees no creation and reaches the clone unchanged.
C9_DirBeforeClone ==
    /\ (nClone > 0 => dirAtClone # "absent")
    /\ (werr = "mkdir" => nClone = 0)
    /\ (dirAtStat = "absent" => mkdirCalls = 1)
    /\ (dirAtStat = "present"
          => mkdirCalls = 0 /\ dirAtClone \in {"none", "present"})

\* a configured directory that was missing has been created and cloned into
C9_Witness ==
    /\ destDir # "" /\ dirAtStat = "absent" /\ mkdirCalls = 1
    /\ nClone = 1 /\ dirAtClone = "present"

\* C10: after an interrupt received during the inter-poll sleep the watcher
\* starts no new command before the process exits.
C10_NoCommandAfterInterrupt ==
    sigInSleep => nCmdStarted = cmdAtSig

\* C11: the number of POST attempts equals the number of completed command
\* invocations when a webhook is configured and is 0 otherwise.
C11_OnePostPerCommand ==
    nPost = (IF slackWebhook # "" THEN nCmdDone ELSE 0)

\* once the controller has its value it keeps it, and a writer still blocked
\* on its send stays blocked; an exit status once set stays
FirstValueStands ==
    /\ mpc \in {"got", "exited"}
         => /\ recvErr' = recvErr
            /\ (spc = "send" => spc' = "send")
            /\ (wpc = "send" => wpc' = "send")
    /\ exited => (exited' /\ exitCode' = exitCode)

\* C12: when the listener and the watcher both have a value to deliver the
\* controller consumes exactly one, the exit is decided by that value alone,
\* and the other writer stays blocked on its send without changing anything.
C12_FirstValueWins ==
    /\ [](~(spc = "done" /\ wpc \in {"defer", "returned"}))
    /\ [](mpc \in {"got", "exited"}
            => recvErr = (IF spc = "done" THEN SignalValue ELSE werr))
    /\ [](mpc = "exited" => exitCode = ExitCodeFor(recvErr))
    /\ [][FirstValueStands]_vars

\* the watcher's error was received and decided the exit while the listener,
\* interrupted in the same run, is still blocked on its send
C12_Witness ==
    /\ mpc = "exited" /\ spc = "send" /\ wpc \in {"defer", "returned"}
    /\ recvErr = werr /\ werr \in FatalErrors /\ exitCode = 1

\* C13: with the controller waiting on the channel, an interrupt delivered to
\* the listener leads to process exit whatever the watcher is doing, also
\* while it sleeps and while it is blocked in a command that never returns.
C13_InterruptLeadsToExit ==
    (mpc = "recv" /\ spc = "send") ~> exited

\* the process exited on the interrupt with the watcher still in its command
C13_Witness ==
    mpc = "exited" /\ recvErr = SignalValue /\ wpc = "cmd" /\ nCmdDone < nCmdStarted

\* C14: a stat failure other than not-exist is fatal: the watch ends with
\* that error and no clone is attempted.
C14_StatFailureFatal ==
    dirAtStat = "unreadable" => (nClone = 0 /\ ~cloneOk /\ nCmdStarted = 0)

\* after a failed clone or pull neither is attempted again
NoRetry ==
    werr \in FatalErrors => (nClone' = nClone /\ nPull' = nPull)

\* C15: the clone is attempted at most once, no pull is attempted before the
\* clone has succeeded and the post-clone command has completed, and after a
\* failed clone or pull no clone or pull is attempted again.
C15_FixedOrderNoRetry ==
    /\ [](nClone <= 1)
    /\ [](nPull > 0 => (cloneOk /\ nClone = 1 /\ nCmdDone >= 1))
    /\ [](wpc = "pull" => (cloneOk /\ nCmdDone >= 1))
    /\ [][NoRetry]_vars

\* a second pull failed after one clone; nothing was attempted after it
C15_Witness ==
    werr = "pull" /\ nClone = 1 /\ nPull = 2 /\ wpc \in {"send", "defer", "returned"}

\* C16: at most one command invocation is in progress, it is in progress
\* exactly while the watcher waits in runCommand, and no pull is attempted
\* while one is in progress.
C16_OneCommandNoOverlap ==
    /\ nCmdStarted - nCmdDone \in {0, 1}
    /\ (nCmdStarted - nCmdDone = 1) <=> (wpc = "cmd")
    /\ (wpc \in {"pull", "sleep", "post"} => nCmdStarted = nCmdDone)

\* the post-update command is running; the post-clone one has finished
C16_Witness ==
    wpc = "cmd" /\ caller = "pull" /\ nCmdStarted = 2 /\ nCmdDone = 1

====
